---- MODULE Spec2Model ----
(***************************************************************************)
(* Model of tatoebatools' ParallelCorpus (parallel_corpus.py) and of the   *)
(* JpnIndices table (jpn_indices.py).                                      *)
(*                                                                         *)
(* ParallelCorpus.__init__ runs _update and then _load; __iter__ replays   *)
(* the link table against the two sentence maps built by _load.  Links,    *)
(* SentencesDetailed, Tatoeba and Version are collaborators whose code is  *)
(* in other files of the package; they are modelled from their described   *)
(* contracts.                                                              *)
(***************************************************************************)
EXTENDS Integers, Sequences, FiniteSets, TLC

\* ---------------------------------------------------------------- bounds
\* number of distinct calendar days a version stamp may fall on
NumDays == 2
\* number of distinct instants within one day
TicksPerDay == 2
\* largest sentence identifier
MaxId == 2
\* largest number of records in the link file
MaxLinks == 2
\* largest number of rows in the jpn_indices file
MaxRows == 2

\* --------------------------------------------------------------- values
\* python's None as the value of an absent version (versions are >= 0)
None == -1

\* a version is a timestamp, counted in ticks
Versions == 0 .. (NumDays * TicksPerDay - 1)

\* datetime.date(): the calendar day of a timestamp
date(v) == v \div TicksPerDay

Langs == {"eng", "fra"}
\* the (source, target) arguments tried: two languages, and one language twice
LangPairs == {<<"eng", "fra">>, <<"fra", "fra">>}
Ids == 1 .. MaxId

\* the table names ParallelCorpus passes to Tatoeba.update
SENTENCES_DETAILED == "sentences_detailed"
LINKS == "links"

\* file names, one per table instance
SentFilename(lg) == <<SENTENCES_DETAILED, lg>>
LinksFilename(s, t) == <<LINKS, s, t>>
JpnFilename == <<"jpn_indices", "jpn">>

\* all sequences over S of length at most n
SeqsUpTo(S, n) == UNION {[1 .. k -> S] : k \in 0 .. n}

\* all partial functions from the keys in K to values in V
PartialFns(K, V) == UNION {[D -> V] : D \in SUBSET K}

\* Version registry lookup: None when the file name is not a key
RegistryLookup(reg, fname) == IF fname \in DOMAIN reg THEN reg[fname] ELSE None

\* python truthiness of a version: None is falsy, a datetime is truthy
Truthy(v) == v # None

VARIABLES
    pc,             \* position of the constructor: "update", "updating", "load", "loaded", "raised"
    src_lg,         \* self._src_lg
    tgt_lg,         \* self._tgt_lg
    upd,            \* self._upd
    vb,             \* self._vb
    sentences,      \* self._sentences : id -> record
    translations,   \* self._translations : id -> record
    registry,       \* the version registry: file name -> version, for the present files
    links_data,     \* records of the link file once the update has run, in file order,
                    \* as pairs <<sentence_id, translation_id>>
    sent_data,      \* language -> the sentence ids in its sentence file once the update has run
    update_calls,   \* the calls made to Tatoeba.update, in order
    loads,          \* number of times _load validated the versions
    logged,         \* the kinds of message logged so far
    it_state,       \* the generator of __iter__: "none", "running", "done", "faulted"
    it_pos,         \* index of the next link record the generator reads
    yielded,        \* the pairs the generator has yielded so far
    jpn_file,       \* jpn_indices file: whether it can be opened, and its rows
    jpn_state,      \* generator of JpnIndices.__iter__: "none", "running", "done", "raised"
    jpn_pos,        \* index of the next row the generator reads
    jpn_out,        \* the JpnIndex records yielded so far
    jpn_version,    \* lazy_property cache of JpnIndices.version: <<>> or <<value>>
    jpn_raised      \* whether an exception left JpnIndices.__iter__ or JpnIndices.version

pcvars == <<pc, src_lg, tgt_lg, upd, vb, sentences, translations, links_data,
            sent_data, update_calls, loads, logged, it_state, it_pos, yielded>>
jpnvars == <<jpn_file, jpn_state, jpn_pos, jpn_out, jpn_version, jpn_raised>>
vars == <<pcvars, registry, jpnvars>>

EmptyMap == [i \in {} |-> None]

\* ------------------------------------------------- collaborators' contracts
\* SentencesDetailed(lg).version
SentVersion(reg, lg) == RegistryLookup(reg, SentFilename(lg))

\* Links(s, t).version
LinksVersion(reg, s, t) == RegistryLookup(reg, LinksFilename(s, t))

\* Links.ids: the distinct source ids and the distinct target ids
LinksIds(recs) ==
    << {recs[k][1] : k \in DOMAIN recs}, {recs[k][2] : k \in DOMAIN recs} >>

\* a SentenceDetailed record of language lg
SentenceRecord(lg, i) == [lang |-> lg, id |-> i]

\* SentencesDetailed(lg).get(ids): the requested ids present in the file
SentGet(lg, fileIds, ids) == [i \in (fileIds \cap ids) |-> SentenceRecord(lg, i)]

\* the files a (table name, language) obligation refers to for this corpus
ObligationFile(tbl, lg, s, t) ==
    IF tbl = SENTENCES_DETAILED THEN SentFilename(lg) ELSE LinksFilename(s, t)

\* the files of this corpus that Tatoeba.update(tables, langs) may refresh
Refreshable(tables, langs, s, t) ==
    {SentFilename(lg) : lg \in {l \in {s, t} : SENTENCES_DETAILED \in tables /\ l \in langs}}
    \cup (IF LINKS \in tables /\ s \in langs /\ t \in langs
          THEN {LinksFilename(s, t)} ELSE {})

\* ------------------------------------------------------- ParallelCorpus
\* TablesToUpdate with the version tests inverted
TablesToUpdate_Inverted(u, sv, tv, lv) ==
    IF u THEN {SENTENCES_DETAILED, LINKS}
    ELSE (IF Truthy(sv) THEN {SENTENCES_DETAILED} ELSE {})
         \cup (IF Truthy(tv) THEN {SENTENCES_DETAILED} ELSE {})
         \cup (IF Truthy(lv) THEN {LINKS} ELSE {})

\* _update, lines 71-86: the table names to update
TablesToUpdate(u, sv, tv, lv) ==
    IF u THEN {SENTENCES_DETAILED, LINKS}
    ELSE (IF ~Truthy(sv) THEN {SENTENCES_DETAILED} ELSE {})
         \cup (IF ~Truthy(tv) THEN {SENTENCES_DETAILED} ELSE {})
         \cup (IF ~Truthy(lv) THEN {LINKS} ELSE {})

\* _update, lines 71-86: the language codes to update
LangsToUpdate(u, s, t, sv, tv, lv) ==
    IF u THEN {s, t}
    ELSE (IF ~Truthy(sv) THEN {s} ELSE {})
         \cup (IF ~Truthy(tv) THEN {t} ELSE {})
         \cup (IF ~Truthy(lv) THEN {s, t} ELSE {})

\* UpdateVerbose passing the instance's flag on
UpdateVerbose_Flag(v) == v

\* _update, line 88: the verbose argument of Tatoeba().update
UpdateVerbose(v) == FALSE

\* _update up to the call of Tatoeba().update
_update ==
    /\ pc = "update"
    /\ LET sv == SentVersion(registry, src_lg)
           tv == SentVersion(registry, tgt_lg)
           lv == LinksVersion(registry, src_lg, tgt_lg)
       IN update_calls' = Append(update_calls,
              [tables  |-> TablesToUpdate(upd, sv, tv, lv),
               langs   |-> LangsToUpdate(upd, src_lg, tgt_lg, sv, tv, lv),
               verbose |-> UpdateVerbose(vb)])
    /\ pc' = "updating"
    /\ UNCHANGED <<src_lg, tgt_lg, upd, vb, sentences, translations, links_data,
                   sent_data, loads, logged, it_state, it_pos, yielded,
                   registry, jpnvars>>

\* Tatoeba().update: best effort, each file it was asked for is either
\* left as it is or downloaded and stamped with a version
TatoebaUpdate ==
    /\ pc = "updating"
    /\ LET call == update_calls[Len(update_calls)]
           files == Refreshable(call.tables, call.langs, src_lg, tgt_lg)
       IN \E fresh \in PartialFns(files, Versions) :
              registry' = [f \in (DOMAIN registry \cup DOMAIN fresh) |->
                              IF f \in DOMAIN fresh THEN fresh[f] ELSE registry[f]]
    /\ pc' = "load"
    /\ UNCHANGED <<src_lg, tgt_lg, upd, vb, sentences, translations, links_data,
                   sent_data, update_calls, loads, logged, it_state, it_pos,
                   yielded, jpnvars>>

\* LoadOutcome without the comparison of the dates
LoadOutcome_NoDates(lv, sv, tv) ==
    IF ~Truthy(lv) \/ ~Truthy(sv) \/ ~Truthy(tv) THEN "missing"
    ELSE "ok"

\* LoadOutcome without the test for absent versions
LoadOutcome_NoMissing(lv, sv, tv) ==
    IF ~Truthy(lv) \/ ~Truthy(sv) \/ ~Truthy(tv) THEN "raise"
    ELSE IF ~(date(lv) = date(sv) /\ date(sv) = date(tv)) THEN "mismatch"
    ELSE "ok"

\* _load, lines 97-111: the branch the validation takes.  "raise" is
\* date() called on None, which the first test rules out
LoadOutcome(lv, sv, tv) ==
    IF ~Truthy(lv) \/ ~Truthy(sv) \/ ~Truthy(tv) THEN "missing"
    ELSE IF ~(date(lv) = date(sv) /\ date(sv) = date(tv)) THEN "mismatch"
    ELSE "ok"

\* the records a link file may hold
LinkRecords == Ids \X Ids

\* _load
_load ==
    /\ pc = "load"
    /\ loads' = loads + 1
    /\ LET lv == LinksVersion(registry, src_lg, tgt_lg)
           sv == SentVersion(registry, src_lg)
           tv == SentVersion(registry, tgt_lg)
           out == LoadOutcome(lv, sv, tv)
       IN /\ pc' = IF out = "raise" THEN "raised" ELSE "loaded"
          /\ logged' = IF out \in {"missing", "mismatch"} THEN logged \cup {out}
                       ELSE logged
          /\ IF out = "ok"
             THEN /\ sentences' = SentGet(src_lg, sent_data[src_lg],
                                          LinksIds(links_data)[1])
                  /\ translations' = SentGet(tgt_lg, sent_data[tgt_lg],
                                             LinksIds(links_data)[2])
             ELSE UNCHANGED <<sentences, translations>>
    /\ UNCHANGED <<links_data, sent_data>>
    /\ UNCHANGED <<src_lg, tgt_lg, upd, vb, update_calls, it_state, it_pos,
                   yielded, registry, jpnvars>>

\* python truthiness of a dict: empty is falsy
NonEmpty(map) == DOMAIN map # {}

\* __iter__ that validates the versions again
__iter___Reload ==
    /\ pc = "loaded"
    /\ it_state' = "running"
    /\ it_pos' = 1
    /\ yielded' = << >>
    /\ loads' = loads + 1
    /\ UNCHANGED <<pc, src_lg, tgt_lg, upd, vb, sentences, translations,
                   links_data, sent_data, update_calls, logged,
                   registry, jpnvars>>

\* __iter__ called: a new generator, nothing run yet
__iter__ ==
    /\ pc = "loaded"
    /\ it_state' = "running"
    /\ it_pos' = 1
    /\ yielded' = << >>
    /\ UNCHANGED <<pc, src_lg, tgt_lg, upd, vb, sentences, translations,
                   links_data, sent_data, update_calls, loads, logged,
                   registry, jpnvars>>

\* IterStep with the pair the wrong way round
IterStep_Swapped(srcMap, tgtMap, recs, k, out) ==
    IF ~(NonEmpty(srcMap) /\ NonEmpty(tgtMap)) \/ k > Len(recs)
    THEN [state |-> "done", pos |-> k, out |-> out]
    ELSE IF recs[k][1] \in DOMAIN srcMap /\ recs[k][2] \in DOMAIN tgtMap
    THEN [state |-> "running", pos |-> k + 1,
          out |-> Append(out, <<tgtMap[recs[k][2]], srcMap[recs[k][1]]>>)]
    ELSE [state |-> "faulted", pos |-> k, out |-> out]

\* IterStep that skips a link record with an unknown id
IterStep_Skip(srcMap, tgtMap, recs, k, out) ==
    IF ~(NonEmpty(srcMap) /\ NonEmpty(tgtMap)) \/ k > Len(recs)
    THEN [state |-> "done", pos |-> k, out |-> out]
    ELSE IF recs[k][1] \in DOMAIN srcMap /\ recs[k][2] \in DOMAIN tgtMap
    THEN [state |-> "running", pos |-> k + 1,
          out |-> Append(out, <<srcMap[recs[k][1]], tgtMap[recs[k][2]]>>)]
    ELSE [state |-> "running", pos |-> k + 1, out |-> out]

\* one step of the generator of __iter__, lines 61-66: what next() does
\* when the generator is at link position k and has yielded out
IterStep(srcMap, tgtMap, recs, k, out) ==
    IF ~(NonEmpty(srcMap) /\ NonEmpty(tgtMap)) \/ k > Len(recs)
    THEN [state |-> "done", pos |-> k, out |-> out]
    ELSE IF recs[k][1] \in DOMAIN srcMap /\ recs[k][2] \in DOMAIN tgtMap
    THEN [state |-> "running", pos |-> k + 1,
          out |-> Append(out, <<srcMap[recs[k][1]], tgtMap[recs[k][2]]>>)]
    ELSE [state |-> "faulted", pos |-> k, out |-> out]

\* next() on the generator
IterNext ==
    /\ pc = "loaded"
    /\ it_state = "running"
    /\ LET st == IterStep(sentences, translations, links_data, it_pos, yielded)
       IN /\ it_state' = st.state
          /\ it_pos' = st.pos
          /\ yielded' = st.out
    /\ UNCHANGED <<pc, src_lg, tgt_lg, upd, vb, sentences, translations,
                   links_data, sent_data, update_calls, loads, logged,
                   registry, jpnvars>>

\* the registry entries a corpus for <<s, t>> can see
CorpusFiles(s, t) == {SentFilename(s), SentFilename(t), LinksFilename(s, t)}

\* a jpn_indices file that cannot be opened
NoFile == [exists |-> FALSE, rows |-> << >>]

JpnIdle ==
    /\ jpn_file = NoFile
    /\ jpn_state = "none"
    /\ jpn_pos = 1
    /\ jpn_out = << >>
    /\ jpn_version = << >>
    /\ jpn_raised = FALSE

\* a few data files: no link, two links with all, some or none of their
\* sentences in the sentence files
SampleLinks == {<< >>, << <<1, 1>>, <<2, 2>> >>}
SampleFiles == {{}, {1}, {1, 2}}

\* the state __init__ leaves at line 47, before _update
Constructing ==
    /\ pc = "update"
    /\ sentences = EmptyMap
    /\ translations = EmptyMap
    /\ update_calls = << >>
    /\ loads = 0
    /\ logged = {}
    /\ it_state = "none"
    /\ it_pos = 1
    /\ yielded = << >>

\* __init__, lines 39-47, for any arguments and any versions of the local
\* data
Init ==
    /\ Constructing
    /\ \E lp \in LangPairs : src_lg = lp[1] /\ tgt_lg = lp[2]
    /\ upd \in BOOLEAN
    /\ vb \in BOOLEAN
    /\ registry \in PartialFns(CorpusFiles(src_lg, tgt_lg), Versions)
    /\ links_data \in SampleLinks
    /\ sent_data \in {[lg \in {src_lg, tgt_lg} |-> F] : F \in SampleFiles}
    /\ JpnIdle

Next == _update \/ TatoebaUpdate \/ _load \/ __iter__ \/ IterNext

Spec == Init /\ [][Next]_vars

\* __init__ with update=False over local data whose three versions are of
\* the first day, for any content of the three files
InitJoin ==
    /\ Constructing
    /\ \E lp \in LangPairs : src_lg = lp[1] /\ tgt_lg = lp[2]
    /\ upd = FALSE
    /\ vb = TRUE
    /\ \E v \in 0 .. (TicksPerDay - 1) :
           registry = [f \in CorpusFiles(src_lg, tgt_lg) |->
                           IF f = LinksFilename(src_lg, tgt_lg) THEN v ELSE 0]
    /\ links_data \in SeqsUpTo(LinkRecords, MaxLinks)
    /\ sent_data \in [{src_lg, tgt_lg} -> SUBSET Ids]
    /\ JpnIdle

SpecJoin == InitJoin /\ [][Next]_vars

\* ----------------------------------------------------------- JpnIndices
\* the rows csv.DictReader may produce: sentence_id, meaning_id, text
JpnRows == {<<"1", "5", "x">>, <<"7", "42", "y">>}

\* JpnIndex.__init__, lines 70-76
JpnIndex(row) == [_sid |-> row[1], _mid |-> row[2], _txt |-> row[3]]

\* JpnIndices.__iter__ called: a new generator, nothing run yet
Jpn__iter__ ==
    /\ jpn_state \in {"none", "done"}
    /\ jpn_state' = "running"
    /\ jpn_pos' = 1
    /\ jpn_out' = << >>
    /\ UNCHANGED <<pcvars, registry, jpn_file, jpn_version, jpn_raised>>

\* JpnIterStep without the handler of OSError
JpnIterStep_NoHandler(file, k, out) ==
    IF ~file.exists
    THEN [state |-> "done", pos |-> k, out |-> out, log |-> {}, raised |-> TRUE]
    ELSE IF k > Len(file.rows)
    THEN [state |-> "done", pos |-> k, out |-> out, log |-> {}, raised |-> FALSE]
    ELSE [state |-> "running", pos |-> k + 1,
          out |-> Append(out, JpnIndex(file.rows[k])), log |-> {}, raised |-> FALSE]

\* one step of the generator of JpnIndices.__iter__, lines 25-44: open()
\* raises OSError on a file that cannot be opened, the handler logs a
\* warning and the generator ends
JpnIterStep(file, k, out) ==
    IF ~file.exists
    THEN [state |-> "done", pos |-> k, out |-> out, log |-> {"no data"}, raised |-> FALSE]
    ELSE IF k > Len(file.rows)
    THEN [state |-> "done", pos |-> k, out |-> out, log |-> {}, raised |-> FALSE]
    ELSE [state |-> "running", pos |-> k + 1,
          out |-> Append(out, JpnIndex(file.rows[k])), log |-> {}, raised |-> FALSE]

\* next() on the generator of JpnIndices.__iter__
JpnNext ==
    /\ jpn_state = "running"
    /\ LET st == JpnIterStep(jpn_file, jpn_pos, jpn_out)
       IN /\ jpn_state' = st.state
          /\ jpn_pos' = st.pos
          /\ jpn_out' = st.out
          /\ logged' = logged \cup st.log
          /\ jpn_raised' = (jpn_raised \/ st.raised)
    /\ UNCHANGED <<pc, src_lg, tgt_lg, upd, vb, sentences, translations,
                   links_data, sent_data, update_calls, loads, it_state,
                   it_pos, yielded, registry, jpn_file, jpn_version>>

\* JpnIndices.version, lines 58-63: computed on the first read, then cached
JpnVersion ==
    /\ jpn_version' = IF jpn_version = << >>
                      THEN << RegistryLookup(registry, JpnFilename) >>
                      ELSE jpn_version
    /\ UNCHANGED <<pcvars, registry, jpn_file, jpn_state, jpn_pos, jpn_out,
                   jpn_raised>>

\* a JpnIndices instance over any local data; no ParallelCorpus is built
InitJpn ==
    /\ pc = "raised"
    /\ src_lg = "eng"
    /\ tgt_lg = "fra"
    /\ upd = FALSE
    /\ vb = FALSE
    /\ sentences = EmptyMap
    /\ translations = EmptyMap
    /\ registry \in PartialFns({JpnFilename}, Versions)
    /\ links_data = << >>
    /\ sent_data = [lg \in {src_lg, tgt_lg} |-> {}]
    /\ update_calls = << >>
    /\ loads = 0
    /\ logged = {}
    /\ it_state = "none"
    /\ it_pos = 1
    /\ yielded = << >>
    /\ jpn_file \in {NoFile} \cup
           {[exists |-> TRUE, rows |-> r] : r \in SeqsUpTo(JpnRows, MaxRows)}
    /\ jpn_state = "none"
    /\ jpn_pos = 1
    /\ jpn_out = << >>
    /\ jpn_version = << >>
    /\ jpn_raised = FALSE

NextJpn == Jpn__iter__ \/ JpnNext \/ JpnVersion

SpecJpn == InitJpn /\ [][NextJpn]_vars

\* ------------------------------------------------------------ properties
\* the three versions the corpus depends on, as the registry has them
CurLinksVersion == LinksVersion(registry, src_lg, tgt_lg)
CurSrcVersion == SentVersion(registry, src_lg)
CurTgtVersion == SentVersion(registry, tgt_lg)

AllPresent ==
    Truthy(CurLinksVersion) /\ Truthy(CurSrcVersion) /\ Truthy(CurTgtVersion)

DatesEqual ==
    /\ AllPresent
    /\ date(CurLinksVersion) = date(CurSrcVersion)
    /\ date(CurSrcVersion) = date(CurTgtVersion)

MapsEmpty == DOMAIN sentences = {} /\ DOMAIN translations = {}

\* the call of Tatoeba.update made by the constructor
TheCall == update_calls[1]

\* link record k names a source id or a target id its map does not have
Miss(k) ==
    \/ links_data[k][1] \notin DOMAIN sentences
    \/ links_data[k][2] \notin DOMAIN translations

\* the pair link record k stands for
PairOf(k) == <<sentences[links_data[k][1]], translations[links_data[k][2]]>>

\* C1: pairs are yielded only if the three versions were present with equal
\* dates when _load ran; in every other case both maps are empty and an
\* iteration ends without a pair.
C1_PairsOnlyIfConsistent ==
    /\ (yielded # << >> => AllPresent /\ DatesEqual)
    /\ (pc = "loaded" /\ ~(AllPresent /\ DatesEqual) =>
            MapsEmpty /\ yielded = << >> /\ it_state # "faulted")

C1_Witness ==
    /\ pc = "loaded"
    /\ AllPresent
    /\ ~DatesEqual
    /\ it_state = "done"
    /\ yielded = << >>

\* C2: with the three versions present and of equal dates, an iteration
\* that has ended has yielded as many pairs as there are link records with
\* both ids in the maps.
C2_CountIsJoinSize ==
    (pc = "loaded" /\ DatesEqual /\ it_state \in {"done", "faulted"}) =>
        Len(yielded) = Cardinality({k \in DOMAIN links_data : ~Miss(k)})

\* C3: with both maps non-empty and every id of every link record in its
\* map, the iteration yields one pair per link record, in file order, the
\* k-th being (sentences[k-th source id], translations[k-th target id]).
C3_OnePairPerLinkInOrder ==
    (/\ pc = "loaded"
     /\ DOMAIN sentences # {} /\ DOMAIN translations # {}
     /\ \A k \in DOMAIN links_data : ~Miss(k)) =>
        /\ it_state # "faulted"
        /\ Len(yielded) <= Len(links_data)
        /\ \A k \in DOMAIN yielded : yielded[k] = PairOf(k)
        /\ (it_state = "done" => Len(yielded) = Len(links_data))

C3_Witness ==
    /\ it_state = "done"
    /\ links_data = << <<1, 1>>, <<2, 2>> >>
    /\ src_lg = "eng"
    /\ yielded = << <<SentenceRecord("eng", 1), SentenceRecord("fra", 1)>>,
                    <<SentenceRecord("eng", 2), SentenceRecord("fra", 2)>> >>

\* C4: with update true, whatever the local data, Tatoeba.update is called
\* with both table names, both language codes and verbose=False.
C4_ForcedUpdateArgs ==
    (upd /\ pc # "update") =>
        /\ Len(update_calls) = 1
        /\ TheCall.tables = {SENTENCES_DETAILED, LINKS}
        /\ TheCall.langs = {src_lg, tgt_lg}
        /\ TheCall.verbose = FALSE

C4_Witness ==
    /\ upd
    /\ vb
    /\ pc = "updating"
    /\ DOMAIN registry = {}
    /\ Len(update_calls) = 1

\* C5: with update false and the three versions present before the
\* construction, Tatoeba.update is called with no table name and no
\* language code.
C5_NothingToUpdate ==
    (~upd /\ pc = "updating" /\ AllPresent) =>
        /\ Len(update_calls) = 1
        /\ TheCall.tables = {}
        /\ TheCall.langs = {}

C5_Witness ==
    /\ ~upd
    /\ pc = "updating"
    /\ AllPresent
    /\ Len(update_calls) = 1

\* C6: with update false, every (table name, language code) obligation
\* handed to Tatoeba.update names a table whose version was absent, and
\* every table whose version was absent is covered.
C6_OnlyAbsentTablesMarked ==
    (~upd /\ pc = "updating") =>
        /\ \A tbl \in TheCall.tables : \A lg \in TheCall.langs :
               ~Truthy(RegistryLookup(registry,
                                      ObligationFile(tbl, lg, src_lg, tgt_lg)))
        /\ \A f \in CorpusFiles(src_lg, tgt_lg) :
               ~Truthy(RegistryLookup(registry, f)) =>
                   f \in Refreshable(TheCall.tables, TheCall.langs, src_lg, tgt_lg)

\* C7: the construction never raises; with a version absent after the
\* update the missing-data error is logged (and no date is compared), with
\* three versions of unequal dates the mismatch error is logged; in both
\* cases the maps stay empty and an iteration ends without a pair.
C7_DegradesWithoutRaising ==
    /\ pc # "raised"
    /\ (pc = "loaded" /\ ~AllPresent) =>
           /\ logged = {"missing"}
           /\ MapsEmpty /\ yielded = << >> /\ it_state # "faulted"
    /\ (pc = "loaded" /\ AllPresent /\ ~DatesEqual) =>
           /\ logged = {"mismatch"}
           /\ MapsEmpty /\ yielded = << >> /\ it_state # "faulted"

C7_Witness ==
    /\ pc = "loaded"
    /\ ~AllPresent
    /\ logged = {"missing"}
    /\ it_state = "done"

\* C8: with the jpn_indices file absent and its name not in the registry,
\* iterating the table yields nothing, its version is None, and neither
\* raises.
C8_AbsentFileIsEmpty ==
    (~jpn_file.exists /\ JpnFilename \notin DOMAIN registry) =>
        /\ jpn_out = << >>
        /\ ~jpn_raised
        /\ jpn_state \in {"none", "running", "done"}
        /\ (jpn_version # << >> => jpn_version = << None >>)

C8_Witness ==
    /\ ~jpn_file.exists
    /\ JpnFilename \notin DOMAIN registry
    /\ jpn_state = "done"
    /\ jpn_version = << None >>
    /\ "no data" \in logged

\* the first link record with an id its map does not have
FirstMiss ==
    CHOOSE k \in DOMAIN links_data : Miss(k) /\ \A j \in 1 .. (k - 1) : ~Miss(j)

\* C9: with both maps non-empty and a link record naming an unknown id,
\* the iteration yields the pairs of the records before the first such
\* record, faults there, and yields nothing more; it never skips it.
C9_FaultAtFirstMiss ==
    (/\ pc = "loaded"
     /\ DOMAIN sentences # {} /\ DOMAIN translations # {}
     /\ \E k \in DOMAIN links_data : Miss(k)) =>
        /\ Len(yielded) <= FirstMiss - 1
        /\ \A k \in DOMAIN yielded : yielded[k] = PairOf(k)
        /\ it_state # "done"
        /\ (it_state = "running" => it_pos = Len(yielded) + 1)
        /\ (it_state = "faulted" => Len(yielded) = FirstMiss - 1)

C9_Witness ==
    /\ it_state = "faulted"
    /\ links_data = << <<1, 1>>, <<2, 2>> >>
    /\ DOMAIN translations = {1}
    /\ Len(yielded) = 1

\* C10: Tatoeba.update is called once and has returned before _load reads
\* the versions, _load has finished before a pair is yielded, and what the
\* construction reached is final: iterating calls no update, validates
\* nothing again and changes neither map.
C10_ConstructionOrderAndFinality ==
    /\ [](/\ (pc \in {"update", "updating"} => loads = 0)
          /\ (pc = "update" => update_calls = << >>)
          /\ (pc \in {"updating", "load", "loaded"} => Len(update_calls) = 1)
          /\ (pc = "loaded" => loads = 1)
          /\ ((it_state # "none" \/ yielded # << >>) => pc = "loaded"))
    /\ [][pc = "loaded" =>
             /\ pc' = "loaded"
             /\ UNCHANGED <<sentences, translations, update_calls, loads,
                            logged, registry>>]_vars

C10_Witness ==
    /\ pc = "loaded"
    /\ it_state = "done"
    /\ Len(yielded) = 2
    /\ loads = 1
    /\ Len(update_calls) = 1
    /\ DOMAIN sentences # {} /\ DOMAIN translations # {}
    /\ logged = {}
====
